---- MODULE Spec2Model ----
(***************************************************************************)
(* Model of the 16550a UART driver of xv6-k210 (kernel/uart.c): the        *)
(* transmit ring buffer, uart_putchar, uart_putc_sync, uart_start,         *)
(* uart_getchar and uart_intr, together with the hardware registers they   *)
(* touch and the kernel primitives they call (acquire/release, sleep/      *)
(* wakeup), which live outside uart.c.                                     *)
(***************************************************************************)
EXTENDS Integers, Sequences, FiniteSets, TLC

(* ---- bounds of the model ---- *)
\* ring capacity; uart.c sets 32, the model scales it down
UART_TX_BUF_SIZE == 3
\* total number of uart_putchar calls
MaxBytes == 5
\* largest byte value passed to the write paths / received
MaxByte == 1
\* cap on the number of THR writes made by uart_start
MaxTx == 5
\* number of bytes the line delivers to the receiver
MaxRx == 3
\* number of uart_putc_sync calls
MaxSync == 1

(* ---- program constants ---- *)
IER_TX_ENABLE == 1
IER_RX_ENABLE == 2
LCR_EIGHT_BITS == 3
LCR_BAUD_LATCH == 128
UART_IIR_NOINT == 1
UART_IIR_RDA == 4
UART_IIR_BSY == 7
UART_IIR_RX_TIMEOUT == 12

Bytes == 0..MaxByte
NoData == -1
NoLock == "none"
NoCtx == "none"
Writers == {"w1", "w2"}
Ctx == Writers \cup {"intr", "sync"}
\* values ReadReg(IIR) may return
IIRValues == {UART_IIR_NOINT, UART_IIR_RDA, UART_IIR_BSY, UART_IIR_RX_TIMEOUT}

VARIABLES
  inited,        \* uart_init has run
  LCR, FCR, IER, \* line control, FIFO control, interrupt enable registers
  lsr_tx_idle,   \* LSR bit LSR_TX_IDLE: THR can accept another character
  RHR,           \* receive holding register: a byte, or NoData (LSR_RX_READY clear)
  uart_tx_buf, uart_tx_w, uart_tx_r,
  uart_tx_lock,  \* holder of the spinlock, or NoLock
  panicked,
  pc,            \* position of every execution context
  arg,           \* argument c of the call each context is in
  val,           \* uart_intr's LSR snapshot
  enq,           \* bytes stored by uart_putchar, in order
  txlog,         \* bytes written to THR by uart_start, in order
  synclog,       \* bytes written to THR by uart_putc_sync, in order
  thr_lost,      \* number of THR writes made while THR was not idle
  rx_left,       \* bytes the line has still to deliver
  arrived,       \* bytes that reached RHR, in order
  delivered,     \* bytes handed to consoleintr, in order
  late,          \* contexts whose current call started with panicked set
  slept,         \* writers that suspended during their current call
  noff,          \* depth of push_off() of the context in uart_putc_sync
  burst,         \* THR writes made by the uart_start invocation under way, else 0
  preempted      \* the context uart_intr interrupted on its core, or NoCtx

hw == <<LCR, FCR, IER, lsr_tx_idle, RHR>>
ring == <<uart_tx_buf, uart_tx_w, uart_tx_r>>
logs == <<enq, txlog, synclog, thr_lost, arrived, delivered>>
vars == <<inited, LCR, FCR, IER, lsr_tx_idle, RHR, uart_tx_buf, uart_tx_w,
          uart_tx_r, uart_tx_lock, panicked, pc, arg, val, enq, txlog,
          synclog, thr_lost, rx_left, arrived, delivered, late, slept,
          noff, burst, preempted>>

(* ---- register interface ---- *)
\* LSR & LSR_RX_READY
lsr_rx_ready == RHR # NoData

\* WriteReg(THR, c): the byte goes into THR; a byte still in it is overwritten
WriteTHR ==
  /\ thr_lost' = IF lsr_tx_idle THEN thr_lost ELSE thr_lost + 1
  /\ lsr_tx_idle' = FALSE

Bit(x, b) == (x \div b) % 2 = 1

(* ---- state before uart_init ---- *)
Init ==
  /\ inited = FALSE
  /\ LCR \in {0, LCR_BAUD_LATCH}
  /\ FCR \in {0, 1}
  /\ IER \in {0, IER_TX_ENABLE + IER_RX_ENABLE}
  /\ lsr_tx_idle = TRUE
  /\ RHR = NoData
  /\ uart_tx_buf = [i \in 0..(UART_TX_BUF_SIZE - 1) |-> 0]
  /\ uart_tx_w = 0
  /\ uart_tx_r = 0
  /\ uart_tx_lock = NoLock
  /\ panicked = FALSE
  /\ pc = [p \in Ctx |-> "idle"]
  /\ arg = [p \in Ctx |-> 0]
  /\ val = [rx |-> FALSE, tx |-> FALSE]
  /\ enq = <<>>
  /\ txlog = <<>>
  /\ synclog = <<>>
  /\ thr_lost = 0
  /\ rx_left = MaxRx
  /\ arrived = <<>>
  /\ delivered = <<>>
  /\ late = {}
  /\ slept = {}
  /\ noff = 0
  /\ burst = 0
  /\ preempted = NoCtx

\* uart_init as it would be if it enabled the transmit interrupt at once
uart_init_txon ==
  /\ ~inited
  /\ inited' = TRUE
  /\ LCR' = LCR_EIGHT_BITS
  /\ FCR' = 0
  /\ IER' = IER_TX_ENABLE + IER_RX_ENABLE
  /\ uart_tx_w' = 0
  /\ uart_tx_r' = 0
  /\ uart_tx_lock' = NoLock
  /\ UNCHANGED <<lsr_tx_idle, RHR, uart_tx_buf, panicked, pc, arg, val,
                 logs, rx_left, late, slept, noff, burst, preempted>>

(* ---- uart_init ---- *)
uart_init ==
  /\ ~inited
  /\ inited' = TRUE
  /\ LCR' = LCR_EIGHT_BITS
  /\ FCR' = 0
  /\ IER' = IER_RX_ENABLE
  /\ uart_tx_w' = 0
  /\ uart_tx_r' = 0
  /\ uart_tx_lock' = NoLock
  /\ UNCHANGED <<lsr_tx_idle, RHR, uart_tx_buf, panicked, pc, arg, val,
                 logs, rx_left, late, slept, noff, burst, preempted>>

(* ---- uart_entxi ---- *)
uart_entxi ==
  /\ inited
  /\ IER' = IF ~Bit(IER, IER_TX_ENABLE) THEN IER_TX_ENABLE + IER_RX_ENABLE ELSE IER
  /\ UNCHANGED <<inited, LCR, FCR, lsr_tx_idle, RHR, ring, uart_tx_lock,
                 panicked, pc, arg, val, logs, rx_left, late, slept, noff, burst, preempted>>

(* ---- kernel primitives used by the driver ---- *)
\* acquire(&uart_tx_lock): spins until the lock is free, then takes it
acquire(x) ==
  /\ uart_tx_lock = NoLock
  /\ uart_tx_lock' = x

\* release(&uart_tx_lock)
release ==
  uart_tx_lock' = NoLock

\* push_off(): interrupts off on this core, one level deeper
push_off ==
  noff' = noff + 1

\* pop_off(): one level up; interrupts are back on at depth 0
pop_off ==
  noff' = noff - 1

\* wakeup(&uart_tx_r): every context sleeping on the channel becomes runnable
wakeup(f) ==
  [q \in Ctx |-> IF f[q] = "sleeping" THEN "woken" ELSE f[q]]

(* ---- the ring buffer ---- *)
\* the full test of uart_putchar
Full == ((uart_tx_w + 1) % UART_TX_BUF_SIZE) = uart_tx_r

\* the empty test of uart_start
Empty == uart_tx_w = uart_tx_r

SetLowByte(x, c) == (x \div 256) * 256 + c

\* uart_tx_buf[uart_tx_w] = c; uart_tx_w = uart_tx_w + 1.
\* A store at an index past the array is undefined: it lands in whatever the
\* linker placed behind the array: storage outside the cursors, the
\* low byte of uart_tx_w (which the increment then reads back, or not, as the
\* compiler chose), or the low byte of uart_tx_r.
Store(c) ==
  IF uart_tx_w < UART_TX_BUF_SIZE
  THEN /\ uart_tx_buf' = [uart_tx_buf EXCEPT ![uart_tx_w] = c % 256]
       /\ uart_tx_w' = uart_tx_w + 1
       /\ uart_tx_r' = uart_tx_r
  ELSE /\ uart_tx_buf' = uart_tx_buf
       /\ \/ /\ uart_tx_w' = uart_tx_w + 1
             /\ uart_tx_r' = uart_tx_r
          \/ /\ uart_tx_w' = SetLowByte(uart_tx_w, c % 256) + 1
             /\ uart_tx_r' = uart_tx_r
          \/ /\ uart_tx_w' = uart_tx_w + 1
             /\ uart_tx_r' = SetLowByte(uart_tx_r, c % 256)

\* the values int c = uart_tx_buf[uart_tx_r] can yield; a load past the
\* array reads whatever byte is stored there
Load ==
  IF uart_tx_r < UART_TX_BUF_SIZE THEN {uart_tx_buf[uart_tx_r]} ELSE Bytes

\* a context interrupted by uart_intr on its core does not run until the
\* handler returns
Running(x) == preempted # x

\* when uart_intr returns, the context it interrupted runs again
Resume(f) == IF f["intr"] = "idle" THEN NoCtx ELSE preempted

(* ---- uart_putchar ---- *)
InFlight == Cardinality({q \in Writers : pc[q] # "idle"})

\* a writer calls uart_putchar(c)
P_call(p, c) ==
  /\ inited
  /\ Running(p)
  /\ pc[p] = "idle"
  /\ Len(enq) + InFlight < MaxBytes
  /\ pc' = [pc EXCEPT ![p] = "acquire"]
  /\ arg' = [arg EXCEPT ![p] = c]
  /\ late' = IF panicked THEN late \cup {p} ELSE late \ {p}
  /\ slept' = slept \ {p}
  /\ UNCHANGED <<inited, hw, ring, uart_tx_lock, panicked, val, logs, rx_left,
                 noff, burst, preempted>>

\* acquire(&uart_tx_lock)
P_acquire(p) ==
  /\ Running(p)
  /\ pc[p] = "acquire"
  /\ acquire(p)
  /\ pc' = [pc EXCEPT ![p] = "chk"]
  /\ UNCHANGED <<inited, hw, ring, panicked, arg, val, logs, rx_left, late, slept, noff, burst, preempted>>

\* uart_putchar as it would be without the panicked test
P_chk_nopanic(p) ==
  /\ Running(p)
  /\ pc[p] = "chk"
  /\ pc' = [pc EXCEPT ![p] = "loop"]
  /\ UNCHANGED <<inited, hw, ring, uart_tx_lock, panicked, arg, val, logs,
                 rx_left, late, slept, noff, burst, preempted>>

\* if(panicked) for(;;);
P_chk(p) ==
  /\ Running(p)
  /\ pc[p] = "chk"
  /\ pc' = [pc EXCEPT ![p] = IF panicked THEN "spin" ELSE "loop"]
  /\ UNCHANGED <<inited, hw, ring, uart_tx_lock, panicked, arg, val, logs,
                 rx_left, late, slept, noff, burst, preempted>>

\* buffer is full: sleep(&uart_tx_r, &uart_tx_lock) releases the lock and suspends
P_sleep(p) ==
  /\ Running(p)
  /\ pc[p] = "loop"
  /\ Full
  /\ release
  /\ pc' = [pc EXCEPT ![p] = "sleeping"]
  /\ slept' = slept \cup {p}
  /\ UNCHANGED <<inited, hw, ring, panicked, arg, val, logs, rx_left, late,
                 noff, burst, preempted>>

\* sleep returns: the woken writer takes the lock again and retests
P_wake(p) ==
  /\ Running(p)
  /\ pc[p] = "woken"
  /\ acquire(p)
  /\ pc' = [pc EXCEPT ![p] = "loop"]
  /\ UNCHANGED <<inited, hw, ring, panicked, arg, val, logs, rx_left, late, slept, noff, burst, preempted>>

\* buffer is not full: store the byte, advance the write cursor
P_store(p) ==
  /\ Running(p)
  /\ pc[p] = "loop"
  /\ ~Full
  /\ Store(arg[p])
  /\ enq' = Append(enq, arg[p])
  /\ pc' = [pc EXCEPT ![p] = "start"]
  /\ burst' = 0
  /\ UNCHANGED <<inited, hw, uart_tx_lock, panicked, arg, val, txlog, synclog,
                 thr_lost, arrived, delivered, rx_left, late, slept, noff,
                 preempted>>

(* ---- uart_start, run by a writer or by uart_intr ---- *)
\* uart_start as it would be without the test of LSR_TX_IDLE
Start_noidle(x) ==
  /\ Running(x)
  /\ pc[x] = "start"
  /\ pc' = [pc EXCEPT ![x] = IF Empty THEN "release" ELSE "send"]
  /\ burst' = IF Empty THEN 0 ELSE burst
  /\ UNCHANGED <<inited, hw, ring, uart_tx_lock, panicked, arg, val, logs,
                 rx_left, late, slept, noff, preempted>>

\* the two tests at the top of the loop
Start(x) ==
  /\ Running(x)
  /\ pc[x] = "start"
  /\ pc' = [pc EXCEPT ![x] = IF Empty \/ ~lsr_tx_idle THEN "release" ELSE "send"]
  /\ burst' = IF Empty \/ ~lsr_tx_idle THEN 0 ELSE burst
  /\ UNCHANGED <<inited, hw, ring, uart_tx_lock, panicked, arg, val, logs,
                 rx_left, late, slept, noff, preempted>>

\* uart_start as it would be without the wakeup call
Send_nowakeup(x) ==
  /\ Running(x)
  /\ pc[x] = "send"
  /\ Len(txlog) < MaxTx
  /\ \E c \in Load : txlog' = Append(txlog, c)
  /\ uart_tx_r' = (uart_tx_r + 1) % UART_TX_BUF_SIZE
  /\ WriteTHR
  /\ burst' = burst + 1
  /\ pc' = [pc EXCEPT ![x] = "start"]
  /\ UNCHANGED <<inited, LCR, FCR, IER, RHR, uart_tx_buf, uart_tx_w,
                 uart_tx_lock, panicked, arg, val, enq, synclog, arrived,
                 delivered, rx_left, late, slept, noff, preempted>>

\* pop one byte, write it to THR, wake the writers
Send(x) ==
  /\ Running(x)
  /\ pc[x] = "send"
  /\ Len(txlog) < MaxTx
  /\ \E c \in Load : txlog' = Append(txlog, c)
  /\ uart_tx_r' = (uart_tx_r + 1) % UART_TX_BUF_SIZE
  /\ WriteTHR
  /\ burst' = burst + 1
  /\ pc' = wakeup([pc EXCEPT ![x] = "start"])
  /\ UNCHANGED <<inited, LCR, FCR, IER, RHR, uart_tx_buf, uart_tx_w,
                 uart_tx_lock, panicked, arg, val, enq, synclog, arrived,
                 delivered, rx_left, late, slept, noff, preempted>>

\* release(&uart_tx_lock) after uart_start; uart_putchar returns; uart_intr
\* reads IIR (and USR on the busy code) and returns
Release(x) ==
  /\ Running(x)
  /\ pc[x] = "release"
  /\ release
  /\ pc' = [pc EXCEPT ![x] = "idle"]
  /\ preempted' = Resume(pc')
  /\ UNCHANGED <<inited, hw, ring, panicked, arg, val, logs, rx_left, late,
                 slept, noff, burst>>

(* ---- uart_getchar ---- *)
\* uart_getchar as it would be if it returned the byte without taking it out
\* of the receive register
uart_getchar_peek(c) ==
  IF lsr_rx_ready
  THEN c = RHR /\ RHR' = RHR
  ELSE c = -1 /\ RHR' = RHR

\* c is the value returned; reading RHR takes the byte out of the hardware
uart_getchar(c) ==
  IF lsr_rx_ready
  THEN c = RHR /\ RHR' = NoData
  ELSE c = -1 /\ RHR' = RHR

(* ---- uart_intr ---- *)
\* the device interrupt is raised
IrqPending ==
  \/ Bit(IER, IER_RX_ENABLE) /\ lsr_rx_ready
  \/ Bit(IER, IER_TX_ENABLE) /\ lsr_tx_idle

\* the contexts the interrupt can be taken over: a writer that is running
\* driver code (a sleeping or merely runnable one is not on a core), or none
\* of them (the handler runs on another core)
Interruptible ==
  {NoCtx} \cup {p \in Writers : pc[p] \in {"acquire", "chk", "spin", "loop",
                                           "start", "send", "release"}}

\* entry of uart_intr on the core of context v:
\* v1 = ReadReg(IIR); on the receive-timeout code, (void)uart_getchar()
IntrEntry(v) ==
  /\ inited
  /\ pc["intr"] = "idle"
  /\ IrqPending
  /\ v \in Interruptible
  /\ preempted' = v
  /\ \E v1 \in IIRValues :
       IF (v1 % 64) = UART_IIR_RX_TIMEOUT
       THEN \E c \in Bytes \cup {-1} : uart_getchar(c)
       ELSE RHR' = RHR
  /\ pc' = [pc EXCEPT !["intr"] = "lsr"]
  /\ UNCHANGED <<inited, LCR, FCR, IER, lsr_tx_idle, ring, uart_tx_lock,
                 panicked, arg, val, logs, rx_left, late, slept, noff, burst>>

\* entry of uart_intr on a core that runs none of the writers
I_enter ==
  IntrEntry(NoCtx)

\* uart_intr as it would be if it ran uart_start on every interrupt
AfterRx_always(tx) == "acquire"

\* where uart_intr goes once the receive part is over: if (val & LSR_TX_IDLE)
\* it takes the lock for uart_start; otherwise it reads IIR (and USR on the
\* busy code, a read without effect on the state) and returns
AfterRx(tx) == IF tx THEN "acquire" ELSE "idle"

\* val = ReadReg(LSR); if (val & LSR_RX_READY)
I_lsr ==
  /\ pc["intr"] = "lsr"
  /\ val' = [rx |-> lsr_rx_ready, tx |-> lsr_tx_idle]
  /\ pc' = [pc EXCEPT !["intr"] = IF lsr_rx_ready THEN "rx" ELSE AfterRx(lsr_tx_idle)]
  /\ preempted' = Resume(pc')
  /\ UNCHANGED <<inited, hw, ring, uart_tx_lock, panicked, arg, logs,
                 rx_left, late, slept, noff, burst>>

\* one round of the receive loop
I_rx ==
  /\ pc["intr"] = "rx"
  /\ \E c \in Bytes \cup {-1} :
       /\ uart_getchar(c)
       /\ IF c = -1
          THEN /\ pc' = [pc EXCEPT !["intr"] = AfterRx(val.tx)]
               /\ delivered' = delivered
          ELSE /\ pc' = pc
               /\ delivered' = Append(delivered, c)
  /\ preempted' = Resume(pc')
  /\ UNCHANGED <<inited, LCR, FCR, IER, lsr_tx_idle, ring, uart_tx_lock,
                 panicked, arg, val, enq, txlog, synclog, thr_lost, arrived,
                 rx_left, late, slept, noff, burst>>

\* uart_intr as it would be if it called uart_start without taking the lock
I_acquire_nolock ==
  /\ pc["intr"] = "acquire"
  /\ pc' = [pc EXCEPT !["intr"] = "start"]
  /\ burst' = 0
  /\ UNCHANGED <<inited, hw, ring, uart_tx_lock, panicked, arg, val, logs,
                 rx_left, late, slept, noff, preempted>>

\* acquire(&uart_tx_lock)
I_acquire ==
  /\ pc["intr"] = "acquire"
  /\ acquire("intr")
  /\ pc' = [pc EXCEPT !["intr"] = "start"]
  /\ burst' = 0
  /\ UNCHANGED <<inited, hw, ring, panicked, arg, val, logs, rx_left, late,
                 slept, noff, preempted>>

(* ---- uart_putc_sync ---- *)
\* push_off()
S_call(c) ==
  /\ inited
  /\ pc["sync"] = "idle"
  /\ Len(synclog) < MaxSync
  /\ pc' = [pc EXCEPT !["sync"] = "chk"]
  /\ arg' = [arg EXCEPT !["sync"] = c]
  /\ late' = IF panicked THEN late \cup {"sync"} ELSE late \ {"sync"}
  /\ push_off
  /\ UNCHANGED <<inited, hw, ring, uart_tx_lock, panicked, val, logs, rx_left,
                 slept, burst, preempted>>

\* if(panicked) for(;;);
S_chk ==
  /\ pc["sync"] = "chk"
  /\ pc' = [pc EXCEPT !["sync"] = IF panicked THEN "spin" ELSE "wait"]
  /\ UNCHANGED <<inited, hw, ring, uart_tx_lock, panicked, arg, val, logs,
                 rx_left, late, slept, noff, burst, preempted>>

\* uart_putc_sync as it would be without the wait for transmit-idle
S_wait_noidle ==
  /\ pc["sync"] = "wait"
  /\ pc' = [pc EXCEPT !["sync"] = "write"]
  /\ UNCHANGED <<inited, hw, ring, uart_tx_lock, panicked, arg, val, logs,
                 rx_left, late, slept, noff, burst, preempted>>

\* while((ReadReg(LSR) & LSR_TX_IDLE) == 0) ;
S_wait ==
  /\ pc["sync"] = "wait"
  /\ lsr_tx_idle
  /\ pc' = [pc EXCEPT !["sync"] = "write"]
  /\ UNCHANGED <<inited, hw, ring, uart_tx_lock, panicked, arg, val, logs,
                 rx_left, late, slept, noff, burst, preempted>>

\* WriteReg(THR, c); pop_off()
S_write ==
  /\ pc["sync"] = "write"
  /\ WriteTHR
  /\ synclog' = Append(synclog, arg["sync"])
  /\ pc' = [pc EXCEPT !["sync"] = "idle"]
  /\ pop_off
  /\ UNCHANGED <<inited, LCR, FCR, IER, RHR, ring, uart_tx_lock, panicked,
                 arg, val, enq, txlog, arrived, delivered, rx_left, late, slept,
                 burst, preempted>>

(* ---- the hardware and the rest of the kernel ---- *)
\* the transmitter takes the byte out of THR
HwTxDone ==
  /\ ~lsr_tx_idle
  /\ lsr_tx_idle' = TRUE
  /\ UNCHANGED <<inited, LCR, FCR, IER, RHR, ring, uart_tx_lock, panicked, pc,
                 arg, val, logs, rx_left, late, slept, noff, burst, preempted>>

\* a byte arrives in the empty receive holding register
HwRx(b) ==
  /\ inited
  /\ rx_left > 0
  /\ RHR = NoData
  /\ RHR' = b
  /\ rx_left' = rx_left - 1
  /\ arrived' = Append(arrived, b)
  /\ UNCHANGED <<inited, LCR, FCR, IER, lsr_tx_idle, ring, uart_tx_lock,
                 panicked, pc, arg, val, enq, txlog, synclog, thr_lost,
                 delivered, late, slept, noff, burst, preempted>>

\* panic() in printf.c sets the flag
Panic ==
  /\ inited
  /\ ~panicked
  /\ panicked' = TRUE
  /\ UNCHANGED <<inited, hw, ring, uart_tx_lock, pc, arg, val, logs, rx_left,
                 late, slept, noff, burst, preempted>>

(* ---- specifications ---- *)
\* the transmit side: writers, the interrupt handler on transmit interrupts,
\* the transmitter; no receive traffic, no panic
NextTx ==
  \/ uart_init
  \/ uart_entxi
  \/ \E p \in Writers, c \in Bytes : P_call(p, c)
  \/ \E p \in Writers : P_acquire(p)
  \/ \E p \in Writers : P_chk(p)
  \/ \E p \in Writers : P_sleep(p)
  \/ \E p \in Writers : P_wake(p)
  \/ \E p \in Writers : P_store(p)
  \/ \E x \in Writers \cup {"intr"} : Start(x)
  \/ \E x \in Writers \cup {"intr"} : Send(x)
  \/ \E x \in Writers \cup {"intr"} : Release(x)
  \/ I_enter
  \/ I_lsr
  \/ I_acquire
  \/ HwTxDone

SpecTx == Init /\ [][NextTx]_vars

\* the receive side: the interrupt handler and the receiver; nothing is
\* ever queued for transmission, so uart_start finds the buffer empty
NextRx ==
  \/ uart_init
  \/ uart_entxi
  \/ I_enter
  \/ I_lsr
  \/ I_rx
  \/ I_acquire
  \/ Start("intr")
  \/ Release("intr")
  \/ \E b \in Bytes : HwRx(b)

SpecRx == Init /\ [][NextRx]_vars

\* the write paths and panic(): writers, uart_putc_sync, the interrupt
\* handler on transmit interrupts, the transmitter
NextPanic ==
  \/ uart_init
  \/ uart_entxi
  \/ \E p \in Writers : P_call(p, 0)
  \/ \E p \in Writers : P_acquire(p)
  \/ \E p \in Writers : P_chk(p)
  \/ \E p \in Writers : P_sleep(p)
  \/ \E p \in Writers : P_wake(p)
  \/ \E p \in Writers : P_store(p)
  \/ \E x \in Writers \cup {"intr"} : Start(x)
  \/ \E x \in Writers \cup {"intr"} : Send(x)
  \/ \E x \in Writers \cup {"intr"} : Release(x)
  \/ I_enter
  \/ I_lsr
  \/ I_acquire
  \/ S_call(1)
  \/ S_chk
  \/ S_wait
  \/ S_write
  \/ HwTxDone
  \/ Panic

SpecPanic == Init /\ [][NextPanic]_vars

\* the interrupt handler with both directions busy: receive traffic, one
\* writer queueing bytes, the transmitter
NextIntr ==
  \/ uart_init
  \/ uart_entxi
  \/ \E p \in {"w1"} : P_call(p, 0)
  \/ \E p \in {"w1"} : P_acquire(p)
  \/ \E p \in {"w1"} : P_chk(p)
  \/ \E p \in {"w1"} : P_sleep(p)
  \/ \E p \in {"w1"} : P_wake(p)
  \/ \E p \in {"w1"} : P_store(p)
  \/ \E x \in {"w1", "intr"} : Start(x)
  \/ \E x \in {"w1", "intr"} : Send(x)
  \/ \E x \in {"w1", "intr"} : Release(x)
  \/ I_enter
  \/ I_lsr
  \/ I_rx
  \/ I_acquire
  \/ HwTxDone
  \/ \E b \in Bytes : HwRx(b)

SpecIntr == Init /\ [][NextIntr]_vars

\* one core shared by a writer and the interrupt handler: a receive interrupt
\* is taken either over the writer, wherever it is inside uart_putchar, or
\* while the core runs something else
NextCore ==
  \/ uart_init
  \/ P_call("w1", 0)
  \/ P_acquire("w1")
  \/ P_chk("w1")
  \/ P_sleep("w1")
  \/ P_wake("w1")
  \/ P_store("w1")
  \/ \E x \in {"w1", "intr"} : Start(x)
  \/ \E x \in {"w1", "intr"} : Send(x)
  \/ \E x \in {"w1", "intr"} : Release(x)
  \/ \E v \in {"w1", NoCtx} : IntrEntry(v)
  \/ I_lsr
  \/ I_rx
  \/ I_acquire
  \/ HwTxDone
  \/ HwRx(0)

SpecCore == Init /\ [][NextCore]_vars

\* one writer, the interrupt handler and the transmitter, with the scheduling
\* the driver relies on: the transmitter always finishes the byte it holds,
\* the interrupt handler and a writer inside uart_putchar keep running.
\* Nothing obliges anyone to call uart_putchar again or to call uart_entxi
\* (no code does), so these two carry no fairness.
LiveWriter ==
  \/ P_acquire("w1")
  \/ P_chk("w1")
  \/ P_sleep("w1")
  \/ P_wake("w1")
  \/ P_store("w1")
  \/ Start("w1")
  \/ Send("w1")
  \/ Release("w1")

LiveIntr ==
  \/ I_enter
  \/ I_lsr
  \/ I_acquire
  \/ Start("intr")
  \/ Send("intr")
  \/ Release("intr")

NextLive ==
  \/ uart_init
  \/ uart_entxi
  \/ P_call("w1", 0)
  \/ LiveWriter
  \/ LiveIntr
  \/ HwTxDone

SpecLive ==
  /\ Init
  /\ [][NextLive]_vars
  /\ WF_vars(uart_init)
  /\ WF_vars(LiveWriter)
  /\ WF_vars(LiveIntr)
  /\ WF_vars(HwTxDone)

TypeOK ==
  /\ uart_tx_lock \in Ctx \cup {NoLock}
  /\ RHR \in Bytes \cup {NoData}
  /\ uart_tx_w \in Nat
  /\ uart_tx_r \in Nat

(* ---- properties ---- *)
IsPrefix(s, t) ==
  /\ Len(s) <= Len(t)
  /\ \A i \in 1..Len(s) : s[i] = t[i]

\* number of bytes uart_putchar has accepted that uart_start has not yet
\* written to THR
Pending == Len(enq) - Len(txlog)

\* C1 (FIFO ordering): at every moment the bytes uart_start has written to
\* THR are a prefix of the bytes stored by uart_putchar: same order, nothing
\* that was not enqueued.
C1_FifoPrefix ==
  IsPrefix(txlog, enq)

\* C2 (end to end with wrap-around): once more than UART_TX_BUF_SIZE bytes
\* have been enqueued and uart_start has written at least as many bytes as
\* were enqueued, the bytes written are exactly the enqueued ones, once each.
C2_EndToEnd ==
  (Len(enq) > UART_TX_BUF_SIZE /\ Len(txlog) >= Len(enq)) => txlog = enq

C4_NoLostWakeup ==
  /\ [](\A p \in Writers : pc[p] = "sleeping" => Full)
  /\ [][txlog' # txlog => \A p \in Writers : pc'[p] # "sleeping"]_vars

\* a writer that suspended on the full buffer has been made runnable
C4_Witness ==
  \E p \in slept : pc[p] = "woken" /\ ~Full

\* C5 (idempotent drain): a pass through the tests of uart_start made while
\* the cursors are congruent modulo UART_TX_BUF_SIZE, or while LSR does not
\* report transmit-idle, returns at once: no THR write, cursors unchanged.
C5_DrainNoop ==
  [][\A x \in Writers \cup {"intr"} :
       ( /\ pc[x] = "start"
         /\ pc'[x] # "start"
         /\ \/ (uart_tx_w % UART_TX_BUF_SIZE) = (uart_tx_r % UART_TX_BUF_SIZE)
            \/ ~lsr_tx_idle )
       => (pc'[x] = "release" /\ UNCHANGED <<ring, txlog, lsr_tx_idle>>)]_vars

\* C6 (panic fail-stop): a call of uart_putchar or uart_putc_sync that
\* started with panicked set stays before its store and its THR write and
\* never returns, and the flag, once set, stays set.
C6_PanicFailStop ==
  /\ [](\A p \in late : pc[p] \in {"acquire", "chk", "spin"})
  /\ [][\A p \in late : (enq' = enq /\ synclog' = synclog /\ txlog' = txlog)
                          \/ pc'[p] = pc[p]]_vars
  /\ [][panicked => panicked']_vars

\* both write paths are spinning in calls made after the panic
C6_Witness ==
  /\ "sync" \in late /\ pc["sync"] = "spin"
  /\ \E p \in Writers \cap late : pc[p] = "spin"

\* C7 (receive passthrough): every byte taken out of the receive register has
\* been handed to consoleintr, once, in arrival order.
C7_RxPassthrough ==
  /\ IsPrefix(delivered, arrived)
  /\ Len(delivered) = Len(arrived) - (IF lsr_rx_ready THEN 1 ELSE 0)

\* the contexts whose position is inside the critical section
Holding(x) == pc[x] \in {"chk", "spin", "loop", "start", "send", "release"}

\* C8 (lock discipline): the buffer and the cursors change only in a step of
\* the context that holds uart_tx_lock; a context inside uart_start holds the
\* lock, and at most one context is inside uart_start.
C8_LockDiscipline ==
  /\ [](\A x \in Writers \cup {"intr"} : Holding(x) => uart_tx_lock = x)
  /\ [](Cardinality({x \in Ctx : pc[x] \in {"start", "send"}}) <= 1)
  /\ [][ring' # ring =>
          \E x \in Writers \cup {"intr"} :
             uart_tx_lock = x /\ pc[x] \in {"loop", "send"} /\ pc'[x] # pc[x]]_vars

\* uart_intr is inside uart_start with the lock while a writer waits for it
C8_Witness ==
  /\ pc["intr"] = "send"
  /\ uart_tx_lock = "intr"
  /\ \E p \in Writers : pc[p] = "acquire"

\* C9 (lazy transmit-interrupt enable): once a byte has been queued by
\* uart_putchar and uart_start has run for it, IER has the transmit-enable
\* bit set.
C9_TxIntrEnabled ==
  (Len(enq) >= 1 /\ \A p \in Writers : pc[p] \notin {"start", "send"})
    => Bit(IER, IER_TX_ENABLE)

C11_SyncFrame ==
  /\ [][pc'["sync"] # pc["sync"] => UNCHANGED <<ring, uart_tx_lock>>]_vars
  /\ [][(pc["sync"] # "write" /\ pc'["sync"] = "write") => lsr_tx_idle]_vars
  /\ [][synclog' # synclog =>
          /\ pc["sync"] = "write"
          /\ synclog' = Append(synclog, arg["sync"])]_vars
  /\ [][(pc["sync"] # "idle" /\ pc'["sync"] = "idle") =>
          Len(synclog') = Len(synclog) + 1]_vars
  /\ [](pc["sync"] = "idle" => noff = 0)
  /\ [](pc["sync"] = "chk" => ENABLED S_chk)
  /\ []((pc["sync"] = "wait" /\ lsr_tx_idle) => ENABLED S_wait)
  /\ [](pc["sync"] = "write" => ENABLED S_write)

\* uart_putc_sync has written its byte and returned while a writer that
\* spins on panicked keeps the lock
C11_Witness ==
  /\ Len(synclog) = 1
  /\ pc["sync"] = "idle"
  /\ noff = 0
  /\ \E p \in Writers : pc[p] = "spin" /\ uart_tx_lock = p

\* C12 (interrupt-handler dispatch): uart_intr takes its LSR snapshot at one
\* place only; it leaves the receive part for uart_start exactly when the
\* snapshot has the transmit-idle bit, and after a snapshot with receive-ready
\* only once uart_getchar found no data; it is inside uart_start only with
\* the lock, outside it without, and never at a position of uart_putchar.
C12_IntrDispatch ==
  /\ [][val' # val => pc["intr"] = "lsr"]_vars
  /\ [][(pc["intr"] \in {"lsr", "rx"} /\ pc'["intr"] \notin {"lsr", "rx"}) =>
          pc'["intr"] = (IF val'.tx THEN "acquire" ELSE "idle")]_vars
  /\ [][(pc["intr"] # "acquire" /\ pc'["intr"] = "acquire" /\ val'.rx) =>
          (pc["intr"] = "rx" /\ ~lsr_rx_ready)]_vars
  /\ [][pc'["intr"] # pc["intr"] => enq' = enq]_vars
  /\ [](pc["intr"] \in {"start", "send", "release"} =>
          (uart_tx_lock = "intr" /\ val.tx))
  /\ [](pc["intr"] \in {"idle", "lsr", "rx", "acquire"} => uart_tx_lock # "intr")
  /\ [](pc["intr"] \in {"idle", "lsr", "rx", "acquire", "start", "send", "release"})

\* uart_intr has delivered a received byte and then sent a queued byte in
\* the same invocation
C12_Witness ==
  /\ pc["intr"] = "start"
  /\ burst >= 1
  /\ val.rx
  /\ Len(delivered) >= 1

\* C13: uart_getchar does not block and stays off the transmit side. A call
\* made while LSR reports received data returns the byte of RHR and takes it
\* out of the hardware; a call made while it does not returns -1 and leaves
\* RHR unread. RHR is emptied by nothing else, the receive loop can always
\* take its step, and no call changes the ring, the cursors or the lock.
C13_NonBlockingRead ==
  /\ [][(pc["intr"] = "rx" /\ (delivered' # delivered \/ pc'["intr"] # "rx"))
          => /\ IF lsr_rx_ready
                THEN /\ delivered' = Append(delivered, RHR)
                     /\ RHR' = NoData
                     /\ pc'["intr"] = "rx"
                ELSE /\ delivered' = delivered
                     /\ RHR' = RHR
                     /\ pc'["intr"] # "rx"
             /\ UNCHANGED <<ring, uart_tx_lock>>]_vars
  /\ [][(RHR' # RHR /\ arrived' = arrived)
          => /\ lsr_rx_ready
             /\ RHR' = NoData
             /\ pc["intr"] \in {"idle", "rx"}
             /\ UNCHANGED <<ring, uart_tx_lock>>]_vars
  /\ [](pc["intr"] = "rx" => ENABLED I_rx)

C13_Witness ==
  /\ val.rx
  /\ pc["intr"] \in {"acquire", "idle"}
  /\ Len(delivered) >= 2
  /\ RHR = NoData

\* C14 (cursor bounds): every store of uart_putchar into uart_tx_buf and every
\* load of uart_start from it uses an index in 0..UART_TX_BUF_SIZE-1.
C14_CursorBounds ==
  /\ [][enq' # enq => uart_tx_w \in 0..(UART_TX_BUF_SIZE - 1)]_vars
  /\ [][txlog' # txlog => uart_tx_r \in 0..(UART_TX_BUF_SIZE - 1)]_vars

\* C15 (bounded critical section): one invocation of uart_start writes at most
\* UART_TX_BUF_SIZE - 1 bytes to THR, however often the hardware reports
\* transmit-idle.
C15_BoundedDrain ==
  burst <= UART_TX_BUF_SIZE - 1

\* C16 (progress): every byte stored in the ring buffer is eventually written
\* to THR (or the transmit log of the model is exhausted), and a writer
\* suspended on the full buffer eventually returns from uart_putchar.
C16_Progress ==
  /\ \A n \in 1..MaxBytes :
       (Len(enq) >= n) ~> (Len(txlog) >= n \/ Len(txlog) >= MaxTx)
  /\ (pc["w1"] = "sleeping") ~> (pc["w1"] = "idle" \/ Len(txlog) >= MaxTx)

\* C17 (fail-stop on every output path): once panicked is set, no step of
\* uart_intr's pump pops a byte from the ring buffer or writes THR.
C17_PanicStopsPump ==
  [][(panicked /\ pc["intr"] = "send" /\ pc'["intr"] # "send")
       => (txlog' = txlog /\ uart_tx_r' = uart_tx_r /\ lsr_tx_idle' = lsr_tx_idle)]_vars

\* C18 (receive-timeout quirk): the extra read made at the entry of uart_intr
\* on the receive-timeout code loses no real byte: whenever the handler is
\* past its receive part, every byte that arrived is still in RHR or has been
\* handed to consoleintr.
C18_TimeoutRead ==
  (pc["intr"] \notin {"lsr", "rx"})
     => Len(delivered) + (IF lsr_rx_ready THEN 1 ELSE 0) = Len(arrived)

====
